---- MODULE Spec2Model ----
(***************************************************************************)
(* Job lifecycle of the CV ranking service (resume.ai).                     *)
(*                                                                         *)
(* Two entry points exist in the repository and both are modelled:         *)
(*   - src/api/main.py: create_ranking_job / process_ranking_job and the   *)
(*     in-memory job_store, with the status and results endpoints;         *)
(*   - services/apis/v1/ranking_job: CreateRankingJobService (run and      *)
(*     process_ranking_job) and the Fetch...Service queries over           *)
(*     redis_session.                                                      *)
(* Both drive OrchestratorAgent.process (services/agents).                 *)
(*                                                                         *)
(* The text extractor, the LLM (generate / generate_embeddings), the file  *)
(* system and the key/value store are collaborators: each call returns or  *)
(* throws, chosen nondeterministically.  A coroutine is cut into steps at  *)
(* the points where it awaits a collaborator; the terminal store write and *)
(* the cleanup loop that follows it are steps of their own.                *)
(*                                                                         *)
(* The delete endpoint of main.py is a caller's explicit removal of a job  *)
(* and is outside the lifecycle modelled here.                             *)
(***************************************************************************)
EXTENDS Integers, Sequences, FiniteSets, TLC

\* ---------------------------------------------------------------- bounds
MaxCvs == 2

Jobs == {"j1"}

\* ------------------------------------------------------------- constants
\* file types of the CV refs (file_ext.replace(".", "")): the type the
\* extractor handles and one of the other allowed extensions
FileTypes == {"pdf", "docx"}

\* WorkflowStatusConstant: the attributes the class defines
WorkflowStatusConstant == [INITIALIZED |-> "initialized", PARSING |-> "parsing",
                           ANALYZING_JD |-> "analyzing_jd", MATCHING |-> "matching",
                           SCORING |-> "scoring", RANKING |-> "ranking",
                           GENERATING_REPORT |-> "generating_report",
                           COMPLETED |-> "completed", FAILED |-> "failed"]

\* Python attribute lookup on the class: a missing attribute raises AttributeError
HasAttr(name) == name \in DOMAIN WorkflowStatusConstant

Absent == "absent"
AttributeErrorText == "type object 'WorkflowStatusConstant' has no attribute 'PROCESSING'"

Tiers == {"A", "B", "C", "D"}

\* ------------------------------------------------------- collaborator data
\* A JD profile as the LLM may structure it.  weight is in tenths; numeric
\* is FALSE for a JSON weight that is not a number (null, "high").
Skill(s, w, n) == [skill |-> s, weight |-> w, numeric |-> n]

DefaultJD == [kind |-> "default", must_have_skills |-> << >>, nice_to_have_skills |-> << >>]

LlmJDs == { [kind |-> "llm",
             must_have_skills |-> << Skill("python", 9, TRUE), Skill("docker", 6, TRUE) >>,
             nice_to_have_skills |-> << Skill("kubernetes", 5, TRUE) >>],
            [kind |-> "llm",
             must_have_skills |-> << Skill("python", 0, FALSE) >>,
             nice_to_have_skills |-> << >>] }

NoJD == [kind |-> "none", must_have_skills |-> << >>, nice_to_have_skills |-> << >>]

\* A CV profile: its skills (already normalised), the number of experience
\* and education entries, total_experience_years and where the summary
\* comes from
Profile(kind, skills, education, summary) ==
    [kind |-> kind, skills |-> skills, experience |-> 0, education |-> education,
     total_experience_years |-> 0, summary |-> summary]

NoProfile == Profile("none", {}, 0, "none")

\* ParserAgent._fallback_parsing
fallback_parsing == Profile("fallback", {}, 0, "text[:500]")

\* Profiles the LLM may structure from a CV
LlmProfiles == { Profile("parsed", {"docker", "kubernetes"}, 0, "llm"),
                 Profile("parsed", {"python", "docker"}, 1, "llm") }

\* semantic_score values the similarity may yield
Semantics == {50, 100}

\* total values the weighted sum may yield (the weights are JD-supplied)
Totals == {20, 60, 90}

\* ------------------------------------------------------------ job records
EmptyDist == [t \in {} |-> 0]

\* The dict OrchestratorAgent.process returns; present is FALSE where a job
\* record has no "results" key.
NoResults == [present |-> FALSE, success |-> FALSE, total_cvs_submitted |-> 0,
              total_cvs_parsed |-> 0, total_candidates_ranked |-> 0,
              ranked_candidates |-> << >>, tier_distribution |-> EmptyDist,
              error |-> Absent]

\* A job record; a key the dict does not carry is Absent (cv_count: -1).
NoRecord == [status |-> Absent, created_at |-> Absent, completed_at |-> Absent,
             cv_count |-> -1, results |-> NoResults, error |-> Absent]

\* a write that replaces the record by the given keys
DictUpdate_replacing(rec, status, results, error) ==
    [NoRecord EXCEPT !.status = status,
                     !.results = results,
                     !.error = error,
                     !.completed_at = "t_done"]

\* dict.update: the given keys are overwritten, the others kept
DictUpdate(rec, status, results, error) ==
    [rec EXCEPT !.status = status,
                !.results = IF results.present THEN results ELSE rec.results,
                !.error = IF error # Absent THEN error ELSE rec.error,
                !.completed_at = "t_done"]

\* ------------------------------------------------- matching and scoring
SeqToSet(s) == { s[i] : i \in DOMAIN s }

Min(a, b) == IF a < b THEN a ELSE b
Max(a, b) == IF a > b THEN a ELSE b

\* MatchingAgent._match_skills: the must-have skills the CV does not carry,
\* in JD order.  The skill names of the job lifecycle are single lowercase
\* words, on which normalisation changes nothing and the similarity test
\* coincides with membership.
RECURSIVE missing_must_have(_, _)
missing_must_have(must, cv_skills) ==
    IF must = << >> THEN << >>
    ELSE LET rest == missing_must_have(Tail(must), cv_skills)
         IN  IF Head(must).skill \in cv_skills THEN rest
             ELSE << Head(must).skill >> \o rest

\* a match percentage that counts an empty must-have list as fully matched
match_percentage_vacuous(must, cv_skills) ==
    IF Len(must) > 0
    THEN ((Len(must) - Len(missing_must_have(must, cv_skills))) * 100) \div Len(must)
    ELSE 100

\* match_percentage (0 when the JD has no must-have skill)
match_percentage(must, cv_skills) ==
    IF Len(must) > 0
    THEN ((Len(must) - Len(missing_must_have(must, cv_skills))) * 100) \div Len(must)
    ELSE 0

matched_nice_to_have(nice, cv_skills) ==
    Cardinality({ i \in DOMAIN nice : nice[i].skill \in cv_skills })

\* A skill name as a string of characters: a sequence of one-character strings
UpperToLower == ("A" :> "a") @@ ("D" :> "d") @@ ("G" :> "g") @@ ("I" :> "i")
                @@ ("L" :> "l") @@ ("M" :> "m") @@ ("O" :> "o") @@ ("P" :> "p")
                @@ ("Q" :> "q") @@ ("S" :> "s")
\* the characters \w matches, among those the skill names use
WordChars == DOMAIN UpperToLower \cup { UpperToLower[c] : c \in DOMAIN UpperToLower }
                 \cup {"t", "_"}
\* the characters \s matches
Whitespace == {" ", "\t"}

\* re.sub(r'[^\w\s.#+]', '', skill)
RECURSIVE remove_special(_)
remove_special(chars) ==
    IF chars = << >> THEN << >>
    ELSE IF Head(chars) \in WordChars \cup Whitespace \cup {".", "#", "+"}
         THEN << Head(chars) >> \o remove_special(Tail(chars))
         ELSE remove_special(Tail(chars))

\* str.split(): the maximal runs of non-whitespace characters, in order
RECURSIVE split_from(_, _)
split_from(chars, word) ==
    IF chars = << >> THEN (IF word = << >> THEN << >> ELSE << word >>)
    ELSE IF Head(chars) \in Whitespace
         THEN (IF word = << >> THEN << >> ELSE << word >>) \o split_from(Tail(chars), << >>)
         ELSE split_from(Tail(chars), Append(word, Head(chars)))

split(chars) == split_from(chars, << >>)

\* ' '.join(words)
RECURSIVE join(_)
join(words) ==
    IF words = << >> THEN << >>
    ELSE IF Len(words) = 1 THEN Head(words)
    ELSE Head(words) \o << " " >> \o join(Tail(words))

\* str.lower()
lower(chars) ==
    [i \in DOMAIN chars |-> IF chars[i] \in DOMAIN UpperToLower THEN UpperToLower[chars[i]]
                            ELSE chars[i]]

\* helpers.normalize_skill (strip() finds nothing left to strip after the join)
normalize_skill(skill) == lower(join(split(remove_special(skill))))

\* MatchingAgent._is_similar_skill: overlap > 0 and overlap / len(target_parts) > 0.5
is_similar_skill_at_least_half(target_skill, cv_skills) ==
    LET target_parts == SeqToSet(split(target_skill))
    IN  \E cv_skill \in cv_skills :
           LET overlap == Cardinality(target_parts \cap SeqToSet(split(cv_skill)))
           IN  overlap > 0 /\ 2 * overlap >= Cardinality(target_parts)

is_similar_skill(target_skill, cv_skills) ==
    LET target_parts == SeqToSet(split(target_skill))
    IN  \E cv_skill \in cv_skills :
           LET overlap == Cardinality(target_parts \cap SeqToSet(split(cv_skill)))
           IN  overlap > 0 /\ 2 * overlap > Cardinality(target_parts)

\* the test _match_skills applies to one required skill
skill_matches(skill_req, cv_skills) ==
    LET skill == normalize_skill(skill_req.skill)
    IN  skill \in cv_skills \/ is_similar_skill(skill, cv_skills)

\* the entries of reqs that pass (keep = TRUE) or fail the test, in JD order
RECURSIVE select_skills(_, _, _)
select_skills(reqs, cv_skills, keep) ==
    IF reqs = << >> THEN << >>
    ELSE (IF skill_matches(Head(reqs), cv_skills) = keep THEN << Head(reqs) >> ELSE << >>)
         \o select_skills(Tail(reqs), cv_skills, keep)

\* MatchingAgent._match_skills on the skill names a CV lists (skills) and the
\* requirements of a JD
match_skills_result(skills, must_have, nice_to_have) ==
    LET cv_skills == { normalize_skill(sk) : sk \in skills }
        matched == select_skills(must_have, cv_skills, TRUE)
        missing == select_skills(must_have, cv_skills, FALSE)
        nice == select_skills(nice_to_have, cv_skills, TRUE)
        jd_skills == { normalize_skill(r.skill) : r \in SeqToSet(must_have \o nice_to_have) }
    IN  [matched_must_have |-> [i \in DOMAIN matched |->
                                  [skill |-> matched[i].skill, weight |-> matched[i].weight,
                                   match_score |-> 100]],
         missing_must_have |-> [i \in DOMAIN missing |-> missing[i].skill],
         matched_nice_to_have |-> [i \in DOMAIN nice |->
                                     [skill |-> nice[i].skill, weight |-> nice[i].weight,
                                      match_score |-> 80]],
         extra_skills |-> cv_skills \ jd_skills,
         match_percentage |-> IF Len(must_have) > 0
                              THEN (Len(matched) * 100) \div Len(must_have)
                              ELSE 0]

\* sum of v1[i] * v2[i] over the first n components
RECURSIVE dot(_, _, _)
dot(v1, v2, n) == IF n = 0 THEN 0 ELSE v1[n] * v2[n] + dot(v1, v2, n - 1)

\* the square root of x, rounded down, for x up to 1000 squared
isqrt(x) == CHOOSE r \in 0..1000 : r * r <= x /\ (r + 1) * (r + 1) > x

\* MatchingAgent._cosine_similarity, in thousandths: 0.0 when np.dot raises
\* on vectors of different lengths and when either norm is 0
cosine_similarity(vec1, vec2) ==
    IF Len(vec1) # Len(vec2) THEN 0
    ELSE LET dot_product == dot(vec1, vec2, Len(vec1))
             norm1_sq == dot(vec1, vec1, Len(vec1))
             norm2_sq == dot(vec2, vec2, Len(vec2))
         IN  IF norm1_sq = 0 \/ norm2_sq = 0 THEN 0
             ELSE (IF dot_product < 0 THEN -1 ELSE 1)
                  * isqrt((dot_product * dot_product * 1000000) \div (norm1_sq * norm2_sq))

\* A _semantic_match that lets a failure of the embedding call through
semantic_match_raising(cv_embedding, full_description) ==
    IF cv_embedding.raises THEN [raised |-> TRUE, score |-> 0]
    ELSE IF cv_embedding.vectors = << >> \/ full_description = << >>
    THEN [raised |-> FALSE, score |-> 500]
    ELSE [raised |-> FALSE,
          score |-> Max(0, Min(1000, cosine_similarity(cv_embedding.vectors[1],
                                                       full_description)))]

\* MatchingAgent._semantic_match, the score in tenths of a point.
\* cv_embedding is what generate_embeddings([cv_summary]) does: it raises, or
\* returns a list of vectors; full_description is
\* jd_embeddings.get("full_description"), << >> when empty or absent.
semantic_match_direct(cv_embedding, full_description) ==
    IF cv_embedding.raises THEN [raised |-> FALSE, score |-> 500]
    ELSE IF cv_embedding.vectors = << >> \/ full_description = << >>
    THEN [raised |-> FALSE, score |-> 500]
    ELSE [raised |-> FALSE,
          score |-> Max(0, Min(1000, cosine_similarity(cv_embedding.vectors[1],
                                                       full_description)))]

\* ScoringAgent._calculate_skills_score, in tenths of a point
calculate_skills_score(mp, semantic, nice) ==
    Min(1000, Max(0, mp * 6 + semantic * 3 + Min(20, nice * 4) * 10))

\* ScoringAgent._calculate_skills_score on a matches dict that may lack the
\* "semantic_score" key: matches.get("semantic_score", 50)
skills_score_of(matches) ==
    calculate_skills_score(matches.match_percentage,
                           IF "semantic_score" \in DOMAIN matches
                           THEN matches.semantic_score ELSE 50,
                           matches.matched_nice_to_have)

\* ScoringAgent._calculate_experience_score, in tenths of a point
calculate_experience_score(cv_years, required_years) ==
    IF required_years = 0 THEN 1000
    ELSE IF cv_years >= required_years
    THEN IF 2 * cv_years <= 3 * required_years THEN 1000
         ELSE IF cv_years <= 2 * required_years THEN 900
         ELSE 750
    ELSE (cv_years * 700) \div required_years

\* ScoringAgent._calculate_education_score, in tenths of a point
calculate_education_score(has_education, meets_requirement) ==
    IF ~ has_education THEN 500
    ELSE IF meets_requirement THEN 1000
    ELSE 700

\* a career score without the early return for fewer than two entries
career_trajectory_without_early_return(experiences, progressing, companies) ==
    Min(1000, Max(0, (IF progressing THEN 850 ELSE 600)
                     + (IF companies >= 2 /\ companies <= 4 THEN 100
                        ELSE IF companies > 4 THEN -50 ELSE 0)))

\* ScoringAgent._calculate_career_trajectory_score, in tenths of a point:
\* experiences is the number of experience entries, progressing whether the
\* first role is at least at the level of the last, companies the number of
\* distinct companies
calculate_career_trajectory_score(experiences, progressing, companies) ==
    IF experiences < 2 THEN 750
    ELSE Min(1000, Max(0, (IF progressing THEN 850 ELSE 600)
                          + (IF companies >= 2 /\ companies <= 4 THEN 100
                             ELSE IF companies > 4 THEN -50 ELSE 0)))

\* the level the keyword search gives a role: 3 when its lowercase name
\* contains a senior keyword, else 2 when it contains a mid keyword, else 1
role_level(role) ==
    IF role.keywords \cap {"senior", "lead", "principal", "architect", "director",
                           "manager", "head"} # {} THEN 3
    ELSE IF role.keywords \cap {"engineer", "developer", "analyst", "consultant"} # {} THEN 2
    ELSE 1

\* ScoringAgent._calculate_career_trajectory_score on the experience list of
\* a CV, most recent entry first
career_trajectory_of(experience) ==
    LET recent == SubSeq(experience, 1, Min(5, Len(experience)))
        role_levels == [i \in DOMAIN recent |-> role_level(recent[i])]
        companies == { recent[i].company : i \in DOMAIN recent }
    IN  calculate_career_trajectory_score(
            Len(experience),
            Len(recent) >= 1 /\ role_levels[1] >= role_levels[Len(recent)],
            Cardinality(companies))

\* ScoringAgent._calculate_confidence, in hundredths
calculate_confidence(experiences, education, technical, mp) ==
    Min(100, 50 + (IF experiences >= 2 THEN 15 ELSE 0)
                + (IF education THEN 10 ELSE 0)
                + (IF technical THEN 15 ELSE 0)
                + (IF mp > 80 THEN 10 ELSE 0))

\* ScoringAgent.process: the scores dict.  weights are in hundredths and the
\* sub-scores in tenths of a point, so total is in thousandths of a point.
scoring_process(weights, m) ==
    LET skills_score == calculate_skills_score(m.match_percentage, m.semantic_score,
                                               m.matched_nice_to_have)
        experience_score == calculate_experience_score(m.cv_years, m.required_years)
        education_score == calculate_education_score(m.has_education, m.meets_requirement)
        career_score == calculate_career_trajectory_score(m.experiences, m.progressing,
                                                          m.companies)
    IN  [total |-> weights.skills * skills_score + weights.experience * experience_score
                   + weights.education * education_score
                   + weights.career_trajectory * career_score,
         skills_match |-> skills_score,
         experience_relevance |-> experience_score,
         education_fit |-> education_score,
         career_trajectory |-> career_score,
         confidence |-> calculate_confidence(m.experiences, m.has_education, m.technical,
                                             m.match_percentage)]

\* The candidate_score dict _match_and_score_cv compiles
CandidateScore(cv, total, skills, missing) ==
    [cv |-> cv, total |-> total, skills_match |-> skills,
     missing_skills |-> missing, rank |-> 0, tier |-> "none", explanation |-> << >>]

\* ------------------------------------------------------------- ranking
\* the first two filters of _apply_filters (total < 30, skills_match < 40)
PassesThresholds(c) == c.total >= 30 /\ c.skills_match >= 400

\* critical_skills: comparing a non-numeric weight with 0.9 raises TypeError,
\* which happens for the first candidate that reaches the comparison
apply_filters_raises(candidates, jd) ==
    /\ \E i \in DOMAIN candidates : PassesThresholds(candidates[i])
    /\ \E k \in DOMAIN jd.must_have_skills : ~ jd.must_have_skills[k].numeric

critical_skills(jd) ==
    { jd.must_have_skills[k].skill : k \in { n \in DOMAIN jd.must_have_skills :
                                             jd.must_have_skills[n].weight >= 9 } }

\* str.lower on the skill names in use
Lower(s) == IF s = "Python" THEN "python" ELSE s

\* the critical-gap test comparing the names as they are spelled
has_critical_gaps_case_sensitive(c, jd) ==
    \E s \in critical_skills(jd) : s \in SeqToSet(c.missing_skills)

has_critical_gaps(c, jd) ==
    \E s \in critical_skills(jd) :
        Lower(s) \in { Lower(m) : m \in SeqToSet(c.missing_skills) }

Keeps(c, jd) == PassesThresholds(c) /\ ~ has_critical_gaps(c, jd)

RECURSIVE apply_filters(_, _)
apply_filters(candidates, jd) ==
    IF candidates = << >> THEN << >>
    ELSE LET rest == apply_filters(Tail(candidates), jd)
         IN  IF Keeps(Head(candidates), jd) THEN << Head(candidates) >> \o rest
             ELSE rest

\* sorted(..., key=total, reverse=True): stable, equal totals keep input order
RECURSIVE InsertByTotal(_, _)
InsertByTotal(c, sorted) ==
    IF sorted = << >> THEN << c >>
    ELSE IF Head(sorted).total >= c.total
         THEN << Head(sorted) >> \o InsertByTotal(c, Tail(sorted))
         ELSE << c >> \o sorted

\* the filtered candidates left in the order they came in
left_unsorted(candidates) == candidates

RECURSIVE sorted_by_total(_)
sorted_by_total(candidates) ==
    IF candidates = << >> THEN << >>
    ELSE LET n == Len(candidates)
         IN  InsertByTotal(candidates[n], sorted_by_total(SubSeq(candidates, 1, n - 1)))

\* the tiers with strict comparisons at the thresholds
tier_of_strict(score) ==
    IF score > 85 THEN "A"
    ELSE IF score > 70 THEN "B"
    ELSE IF score > 55 THEN "C"
    ELSE "D"

tier_of(score) ==
    IF score >= 85 THEN "A"
    ELSE IF score >= 70 THEN "B"
    ELSE IF score >= 55 THEN "C"
    ELSE "D"

\* ranks counted from 0, as enumerate yields them
assign_ranks_from_zero(candidates) ==
    [ i \in DOMAIN candidates |->
        [candidates[i] EXCEPT !.rank = i - 1, !.tier = tier_of(candidates[i].total)] ]

assign_ranks_and_tiers(candidates) ==
    [ i \in DOMAIN candidates |->
        [candidates[i] EXCEPT !.rank = i, !.tier = tier_of(candidates[i].total)] ]

\* RankingAgent._generate_explanation: the remark on the total, then the
\* remark on the skills match if there is one (skills_match in tenths)
generate_explanation(c) ==
    << IF c.total >= 85 THEN "Excellent match for this position."
       ELSE IF c.total >= 70 THEN "Strong candidate with good potential."
       ELSE IF c.total >= 55 THEN "Decent fit with some gaps."
       ELSE "Marginal fit for the role." >>
    \o (IF c.skills_match >= 850 THEN << "Excellent skills match." >>
        ELSE IF c.skills_match < 600 THEN << "Skills match is below expectations." >>
        ELSE << >>)

with_explanations(candidates) ==
    [ i \in DOMAIN candidates |->
        [candidates[i] EXCEPT !.explanation = generate_explanation(candidates[i])] ]

\* every candidate counted under the default tier of candidate.get("tier", "C")
tier_distribution_by_default(candidates) ==
    [ t \in Tiers |-> IF t = "C" THEN Len(candidates) ELSE 0 ]

\* RankingAgent._calculate_tier_distribution
calculate_tier_distribution(candidates) ==
    [ t \in Tiers |-> Cardinality({ i \in DOMAIN candidates : candidates[i].tier = t }) ]

\* a ranking agent that treats an empty candidate list as an error
ranking_process_rejects_empty(candidates, jd) ==
    IF candidates = << >> \/ apply_filters_raises(candidates, jd)
    THEN [success |-> FALSE, ranked_candidates |-> << >>, has_summary |-> FALSE,
          total_candidates |-> 0, tiers |-> EmptyDist]
    ELSE LET ranked == with_explanations(
                           assign_ranks_and_tiers(
                               sorted_by_total(apply_filters(candidates, jd))))
         IN  [success |-> TRUE, ranked_candidates |-> ranked, has_summary |-> TRUE,
              total_candidates |-> Len(ranked),
              tiers |-> calculate_tier_distribution(ranked)]

\* RankingAgent.process.  has_summary is FALSE for the early return, which
\* carries neither total_candidates nor tiers.
ranking_process(candidates, jd) ==
    IF candidates = << >>
    THEN [success |-> TRUE, ranked_candidates |-> << >>, has_summary |-> FALSE,
          total_candidates |-> 0, tiers |-> EmptyDist]
    ELSE IF apply_filters_raises(candidates, jd)
    THEN [success |-> FALSE, ranked_candidates |-> << >>, has_summary |-> FALSE,
          total_candidates |-> 0, tiers |-> EmptyDist]
    ELSE LET ranked == with_explanations(
                           assign_ranks_and_tiers(
                               sorted_by_total(apply_filters(candidates, jd))))
         IN  [success |-> TRUE, ranked_candidates |-> ranked, has_summary |-> TRUE,
              total_candidates |-> Len(ranked),
              tiers |-> calculate_tier_distribution(ranked)]

\* ---------------------------------------------------------------- state
VARIABLES
    api,               \* the entry point each job id was given to
    job_store,         \* main.py: job_id -> record
    redis_session,     \* services: job_id -> record
    pc,                \* where each job's background task stands
    cv_files,          \* the CV refs of each job (their file types)
    jd_text,           \* the job description text of each job
    jd_llm,            \* how generate answered the JD structuring call
    jd_data,           \* the JD profile JD analysis produced
    jd_result,         \* whether JDAnalyzerAgent.process reported success
    ranking_result,    \* whether RankingAgent.process reported success
    jd_embeddings,     \* whether the JD full_description embedding exists
    parsed_cvs,        \* the CV analysis tasks of each job
    candidate_scores,  \* the match+score tasks of each job
    ranking_input,     \* the successful_scores handed to the ranking agent
    result,            \* what OrchestratorAgent.process returned
    removed,           \* the CV files whose removal was attempted
    submit_response,   \* what Submit answered for each job id
    query_response,    \* the answer of the query made in the last step, if any
    call               \* the last direct call of an agent: its input and output

vars == << api, job_store, redis_session, pc, cv_files, jd_text,
           jd_llm, jd_data, jd_result, ranking_result, jd_embeddings, parsed_cvs,
           candidate_scores, ranking_input, result, removed, submit_response,
           query_response, call >>

pipeline == << jd_llm, jd_data, jd_result, ranking_result, jd_embeddings, parsed_cvs,
               candidate_scores, ranking_input, result, removed >>

Stored(j) == IF api[j] = "service" THEN redis_session[j] ELSE job_store[j]

\* the CV ref lists a request may carry
CvFileLists(lo) == UNION { [1..n -> FileTypes] : n \in lo..MaxCvs }

JdTexts == {"", "jd"}

Response(op, store, j, outcome, status, candidates) ==
    [op |-> op, store |-> store, job |-> j, outcome |-> outcome, status |-> status,
     candidates |-> candidates, created_at |-> Absent, cv_count |-> 0]

NoQuery == Response("none", "none", "none", "none", Absent, 0)

\* no agent has been called directly
NoCall == [fn |-> "none"]

Init ==
    /\ api = [j \in Jobs |-> "none"]
    /\ job_store = [j \in Jobs |-> NoRecord]
    /\ redis_session = [j \in Jobs |-> NoRecord]
    /\ pc = [j \in Jobs |-> "idle"]
    /\ cv_files = [j \in Jobs |-> << >>]
    /\ jd_text = [j \in Jobs |-> ""]
    /\ jd_llm = [j \in Jobs |-> "none"]
    /\ jd_data = [j \in Jobs |-> NoJD]
    /\ jd_result = [j \in Jobs |-> "none"]
    /\ ranking_result = [j \in Jobs |-> "none"]
    /\ jd_embeddings = [j \in Jobs |-> FALSE]
    /\ parsed_cvs = [j \in Jobs |-> << >>]
    /\ candidate_scores = [j \in Jobs |-> << >>]
    /\ ranking_input = [j \in Jobs |-> << >>]
    /\ result = [j \in Jobs |-> NoResults]
    /\ removed = [j \in Jobs |-> {}]
    /\ submit_response = [j \in Jobs |-> "none"]
    /\ query_response = NoQuery
    /\ call = NoCall

\* BaseAgent.handle_error: the failure dict an agent returns
handle_error(error) == [NoResults EXCEPT !.present = TRUE, !.success = FALSE, !.error = error]

\* ----------------------------------------------------------------- Submit
\* main.py create_ranking_job, once validation and the file saves are done:
\* the record is stored, then the background task is added.
create_ranking_job(j) ==
    /\ api[j] = "none"
    /\ pc[j] = "idle"
    /\ api' = [api EXCEPT ![j] = "main"]
    /\ \E files \in CvFileLists(1), text \in JdTexts :
          /\ cv_files' = [cv_files EXCEPT ![j] = files]
          /\ jd_text' = [jd_text EXCEPT ![j] = text]
          /\ job_store' = [job_store EXCEPT ![j] =
                 [NoRecord EXCEPT !.status = "processing", !.created_at = "t_submit",
                                  !.cv_count = Len(files)]]
    /\ pc' = [pc EXCEPT ![j] = "scheduled"]
    /\ submit_response' = [submit_response EXCEPT ![j] = "processing"]
    /\ UNCHANGED << redis_session, pipeline >>
    /\ query_response' = NoQuery
    /\ UNCHANGED call

\* CreateRankingJobService.run: building job_data reads
\* WorkflowStatusConstant.PROCESSING; when the lookup raises, the handler
\* raises in turn and nothing is stored or scheduled.
service_run(j) ==
    /\ api[j] = "none"
    /\ pc[j] = "idle"
    /\ api' = [api EXCEPT ![j] = "service"]
    /\ submit_response[j] = "none"
    /\ \E files \in CvFileLists(0), text \in JdTexts :
          IF HasAttr("PROCESSING")
          THEN /\ cv_files' = [cv_files EXCEPT ![j] = files]
               /\ jd_text' = [jd_text EXCEPT ![j] = text]
               /\ redis_session' = [redis_session EXCEPT ![j] =
                      [NoRecord EXCEPT !.status = WorkflowStatusConstant["PROCESSING"],
                                       !.created_at = "t_submit",
                                       !.cv_count = Len(files)]]
               /\ pc' = [pc EXCEPT ![j] = "scheduled"]
               /\ submit_response' = [submit_response EXCEPT ![j] = "processing"]
          ELSE /\ submit_response' = [submit_response EXCEPT ![j] = "raised"]
               /\ UNCHANGED << cv_files, jd_text, redis_session, pc >>
    /\ UNCHANGED << job_store, pipeline >>
    /\ query_response' = NoQuery
    /\ UNCHANGED call


\* -------------------------------------------------------------------- Run
NewParse == [st |-> "new", llm |-> "none", cv_data |-> NoProfile]

\* an orchestrator that goes on to the LLM without looking at the success
\* flag of the JD analysis
orchestrator_begin_unchecked(j) ==
    IF jd_text'[j] = ""
    THEN /\ jd_result' = [jd_result EXCEPT ![j] = "failed"]
         /\ UNCHANGED result
         /\ pc' = [pc EXCEPT ![j] = "jd_llm"]
    ELSE /\ UNCHANGED << jd_result, result >>
         /\ pc' = [pc EXCEPT ![j] = "jd_llm"]

\* process_ranking_job up to the first await of OrchestratorAgent.process:
\* JDAnalyzerAgent.process raises on an empty job_description, which the
\* orchestrator turns into its failure dict; otherwise the LLM is awaited.
orchestrator_begin(j) ==
    IF jd_text'[j] = ""
    THEN /\ jd_result' = [jd_result EXCEPT ![j] = "failed"]
         /\ result' = [result EXCEPT ![j] = handle_error("Failed to analyze job description")]
         /\ pc' = [pc EXCEPT ![j] = "write"]
    ELSE /\ UNCHANGED << jd_result, result >>
         /\ pc' = [pc EXCEPT ![j] = "jd_llm"]

\* main.py process_ranking_job, lines 222-234
process_ranking_job(j) ==
    /\ api[j] = "main"
    /\ pc[j] = "scheduled"
    /\ job_store' = [job_store EXCEPT ![j].status = "processing"]
    /\ UNCHANGED << cv_files, jd_text >>
    /\ orchestrator_begin(j)
    /\ UNCHANGED << api, redis_session, jd_llm, jd_data, ranking_result, jd_embeddings,
                    parsed_cvs, candidate_scores, ranking_input, removed, submit_response >>
    /\ query_response' = NoQuery
    /\ UNCHANGED call

\* CreateRankingJobService.process_ranking_job, lines 52-68 and 99-108: the
\* coroutine run by the background task Submit added or called directly.
\* The first store write reads WorkflowStatusConstant.PROCESSING; when the
\* lookup raises, the outer handler stores a failed record and the
\* coroutine ends, the cleanup loop inside the try block not reached.
service_process_ranking_job(j) ==
    /\ api[j] \in {"none", "service"}
    /\ pc[j] \in {"idle", "scheduled"}
    /\ api' = [api EXCEPT ![j] = "service"]
    /\ \E files \in CvFileLists(0), text \in JdTexts :
          /\ pc[j] = "scheduled" => (files = cv_files[j] /\ text = jd_text[j])
          /\ cv_files' = [cv_files EXCEPT ![j] = files]
          /\ jd_text' = [jd_text EXCEPT ![j] = text]
          /\ IF HasAttr("PROCESSING")
             THEN /\ redis_session' = [redis_session EXCEPT ![j] =
                         [NoRecord EXCEPT !.status = WorkflowStatusConstant["PROCESSING"],
                                          !.created_at = "t_run",
                                          !.cv_count = Len(files)]]
                  /\ orchestrator_begin(j)
             ELSE /\ redis_session' = [redis_session EXCEPT ![j] =
                         [NoRecord EXCEPT !.status = WorkflowStatusConstant["FAILED"],
                                          !.error = AttributeErrorText,
                                          !.completed_at = "t_done",
                                          !.cv_count = Len(files)]]
                  /\ pc' = [pc EXCEPT ![j] = "done"]
                  /\ UNCHANGED << jd_result, result >>
    /\ UNCHANGED << job_store, jd_llm, jd_data, ranking_result, jd_embeddings, parsed_cvs,
                    candidate_scores, ranking_input, removed, submit_response >>
    /\ query_response' = NoQuery
    /\ UNCHANGED call

\* a JD structuring step without the default profile: the LLM failure
\* fails JD analysis and with it the job
analyze_with_llm_no_fallback(j) ==
    /\ pc[j] = "jd_llm"
    /\ \E outcome \in {"ok", "throws", "unparsable"} :
          /\ jd_llm' = [jd_llm EXCEPT ![j] = IF outcome = "ok" THEN "ok" ELSE "failed"]
          /\ IF outcome = "ok"
             THEN /\ \E jd \in LlmJDs : jd_data' = [jd_data EXCEPT ![j] = jd]
                  /\ pc' = [pc EXCEPT ![j] = "jd_emb"]
                  /\ UNCHANGED << jd_result, result >>
             ELSE /\ jd_result' = [jd_result EXCEPT ![j] = "failed"]
                  /\ result' = [result EXCEPT ![j] =
                         handle_error("Failed to analyze job description")]
                  /\ pc' = [pc EXCEPT ![j] = "write"]
                  /\ UNCHANGED jd_data
    /\ UNCHANGED << api, job_store, redis_session, cv_files, jd_text, ranking_result,
                    jd_embeddings, parsed_cvs, candidate_scores, ranking_input, removed,
                    submit_response >>
    /\ query_response' = NoQuery
    /\ UNCHANGED call

\* JDAnalyzerAgent._analyze_with_llm: generate returned parsable JSON, or it
\* threw or returned unparsable text and the fallback structure is used
analyze_with_llm(j) ==
    /\ pc[j] = "jd_llm"
    /\ \E outcome \in {"ok", "throws", "unparsable"} :
          /\ jd_llm' = [jd_llm EXCEPT ![j] = IF outcome = "ok" THEN "ok" ELSE "failed"]
          /\ \E jd \in (IF outcome = "ok" THEN LlmJDs ELSE {DefaultJD}) :
                 jd_data' = [jd_data EXCEPT ![j] = jd]
    /\ pc' = [pc EXCEPT ![j] = "jd_emb"]
    /\ UNCHANGED << api, job_store, redis_session, cv_files, jd_text, jd_result,
                    ranking_result, jd_embeddings, parsed_cvs, candidate_scores,
                    ranking_input, result, removed, submit_response >>
    /\ query_response' = NoQuery
    /\ UNCHANGED call

\* JDAnalyzerAgent._generate_embeddings returns (empty vectors on an error);
\* the orchestrator then creates one _parse_cv task per CV ref and gathers
generate_embeddings(j) ==
    /\ pc[j] = "jd_emb"
    /\ \E ok \in BOOLEAN : jd_embeddings' = [jd_embeddings EXCEPT ![j] = ok]
    /\ jd_result' = [jd_result EXCEPT ![j] = "ok"]
    /\ parsed_cvs' = [parsed_cvs EXCEPT ![j] = [i \in DOMAIN cv_files[j] |-> NewParse]]
    /\ pc' = [pc EXCEPT ![j] = "parse"]
    /\ UNCHANGED << api, job_store, redis_session, cv_files, jd_text, jd_llm, jd_data,
                    ranking_result, candidate_scores, ranking_input, result, removed,
                    submit_response >>
    /\ query_response' = NoQuery
    /\ UNCHANGED call

\* a _parse_cv that lets the extraction failure out of the task, with a
\* gather that re-raises it: the orchestrator's handler ends the job
parse_cv_extract_raises(j, i) ==
    /\ pc[j] = "parse"
    /\ i \in DOMAIN parsed_cvs[j]
    /\ parsed_cvs[j][i].st = "new"
    /\ \A k \in 1..(i - 1) : parsed_cvs[j][k].st # "new"
    /\ \E extracted \in (IF cv_files[j][i] = "pdf" THEN BOOLEAN ELSE {FALSE}) :
          /\ parsed_cvs' = [parsed_cvs EXCEPT ![j][i].st =
                                IF extracted THEN "llm" ELSE "failed"]
          /\ IF extracted
             THEN UNCHANGED << pc, result >>
             ELSE /\ pc' = [pc EXCEPT ![j] = "write"]
                  /\ result' = [result EXCEPT ![j] = handle_error("Failed to parse CV")]
    /\ UNCHANGED << api, job_store, redis_session, cv_files, jd_text, jd_llm, jd_data,
                    jd_result, ranking_result, jd_embeddings, candidate_scores,
                    ranking_input, removed, submit_response >>
    /\ query_response' = NoQuery
    /\ UNCHANGED call

\* _parse_cv(i) runs up to its first await: ParserAgent._extract_text raises
\* for a type other than pdf, and the PDF extraction itself may throw;
\* either failure ends the task with success False.  Tasks start in the
\* order gather received them.
parse_cv_extract(j, i) ==
    /\ pc[j] = "parse"
    /\ i \in DOMAIN parsed_cvs[j]
    /\ parsed_cvs[j][i].st = "new"
    /\ \A k \in 1..(i - 1) : parsed_cvs[j][k].st # "new"
    /\ \E extracted \in (IF cv_files[j][i] = "pdf" THEN BOOLEAN ELSE {FALSE}) :
          parsed_cvs' = [parsed_cvs EXCEPT ![j][i].st = IF extracted THEN "llm" ELSE "failed"]
    /\ UNCHANGED << api, job_store, redis_session, pc, cv_files, jd_text, jd_llm, jd_data,
                    jd_result, ranking_result, jd_embeddings, candidate_scores,
                    ranking_input, result, removed, submit_response >>
    /\ query_response' = NoQuery
    /\ UNCHANGED call

\* a CV structuring step without _fallback_parsing: the LLM failure ends
\* the task with success False
parse_with_llm_no_fallback(j, i) ==
    /\ pc[j] = "parse"
    /\ i \in DOMAIN parsed_cvs[j]
    /\ parsed_cvs[j][i].st = "llm"
    /\ \E outcome \in {"ok", "throws", "unparsable"} :
          IF outcome = "ok"
          THEN \E cv_dict \in LlmProfiles :
                  parsed_cvs' = [parsed_cvs EXCEPT ![j][i] =
                      [st |-> "ok", llm |-> "ok", cv_data |-> cv_dict]]
          ELSE parsed_cvs' = [parsed_cvs EXCEPT ![j][i] =
                      [st |-> "failed", llm |-> "failed", cv_data |-> NoProfile]]
    /\ UNCHANGED << api, job_store, redis_session, pc, cv_files, jd_text, jd_llm, jd_data,
                    jd_result, ranking_result, jd_embeddings, candidate_scores,
                    ranking_input, result, removed, submit_response >>
    /\ query_response' = NoQuery
    /\ UNCHANGED call

\* ParserAgent._parse_with_llm: generate returned parsable JSON, or it threw
\* or returned unparsable text and _fallback_parsing supplies the profile
parse_with_llm(j, i) ==
    /\ pc[j] = "parse"
    /\ i \in DOMAIN parsed_cvs[j]
    /\ parsed_cvs[j][i].st = "llm"
    /\ \E outcome \in {"ok", "throws", "unparsable"} :
          \E cv_dict \in (IF outcome = "ok" THEN LlmProfiles ELSE {fallback_parsing}) :
              parsed_cvs' = [parsed_cvs EXCEPT ![j][i] =
                  [st |-> "ok", llm |-> IF outcome = "ok" THEN "ok" ELSE "failed",
                   cv_data |-> cv_dict]]
    /\ UNCHANGED << api, job_store, redis_session, pc, cv_files, jd_text, jd_llm, jd_data,
                    jd_result, ranking_result, jd_embeddings, candidate_scores,
                    ranking_input, result, removed, submit_response >>
    /\ query_response' = NoQuery
    /\ UNCHANGED call

\* the indexes of s, in order, whose element satisfies st = wanted
RECURSIVE IndexesWith(_, _, _)
IndexesWith(s, wanted, n) ==
    IF n = 0 THEN << >>
    ELSE IF s[n].st = wanted THEN Append(IndexesWith(s, wanted, n - 1), n)
         ELSE IndexesWith(s, wanted, n - 1)

\* successful_cvs: gather keeps the order of the tasks it was given
successful_cvs(parsed) == IndexesWith(parsed, "ok", Len(parsed))

NoScore == CandidateScore(0, 0, 0, << >>)

\* a gather that returns only when every parse task succeeded
parse_gather_all_ok(j) ==
    /\ pc[j] = "parse"
    /\ \A i \in DOMAIN parsed_cvs[j] : parsed_cvs[j][i].st = "ok"
    /\ LET ok == successful_cvs(parsed_cvs[j])
       IN  candidate_scores' = [candidate_scores EXCEPT ![j] =
               [k \in DOMAIN ok |-> [st |-> "new", cv |-> ok[k], score |-> NoScore]]]
    /\ pc' = [pc EXCEPT ![j] = "score"]
    /\ UNCHANGED << api, job_store, redis_session, cv_files, jd_text, jd_llm, jd_data,
                    jd_result, ranking_result, jd_embeddings, parsed_cvs, ranking_input,
                    result, removed, submit_response >>
    /\ query_response' = NoQuery
    /\ UNCHANGED call

\* gather of the parse tasks returns; one _match_and_score_cv task is created
\* per successfully parsed CV
parse_gather(j) ==
    /\ pc[j] = "parse"
    /\ \A i \in DOMAIN parsed_cvs[j] : parsed_cvs[j][i].st \in {"ok", "failed"}
    /\ LET ok == successful_cvs(parsed_cvs[j])
       IN  candidate_scores' = [candidate_scores EXCEPT ![j] =
               [k \in DOMAIN ok |-> [st |-> "new", cv |-> ok[k], score |-> NoScore]]]
    /\ pc' = [pc EXCEPT ![j] = "score"]
    /\ UNCHANGED << api, job_store, redis_session, cv_files, jd_text, jd_llm, jd_data,
                    jd_result, ranking_result, jd_embeddings, parsed_cvs, ranking_input,
                    result, removed, submit_response >>
    /\ query_response' = NoQuery
    /\ UNCHANGED call

\* LLM-structured data may be malformed (a null section, a wrong type) and
\* make an agent raise; the fallback CV profile and the default JD are not.
MayBeMalformed(j, cv) ==
    parsed_cvs[j][cv].cv_data.kind = "parsed" \/ jd_data[j].kind = "llm"

\* _match_and_score_cv(k) up to its first await: MatchingAgent._match_skills
\* runs, then the CV summary embedding is awaited; a raise ends the task
\* with None
match_skills(j, k) ==
    /\ pc[j] = "score"
    /\ k \in DOMAIN candidate_scores[j]
    /\ candidate_scores[j][k].st = "new"
    /\ \A n \in 1..(k - 1) : candidate_scores[j][n].st # "new"
    /\ \E raises \in (IF MayBeMalformed(j, candidate_scores[j][k].cv) THEN BOOLEAN ELSE {FALSE}) :
          candidate_scores' = [candidate_scores EXCEPT ![j][k].st =
                                   IF raises THEN "none" ELSE "emb"]
    /\ UNCHANGED << api, job_store, redis_session, pc, cv_files, jd_text, jd_llm, jd_data,
                    jd_result, ranking_result, jd_embeddings, parsed_cvs, ranking_input,
                    result, removed, submit_response >>
    /\ query_response' = NoQuery
    /\ UNCHANGED call

\* MatchingAgent._semantic_match: 50 when the CV embedding call throws or
\* returns nothing or the JD embedding is missing
semantic_match(j, embedded, similarity) ==
    IF ~ embedded \/ ~ jd_embeddings[j] THEN 50 ELSE similarity

\* the rest of _match_and_score_cv(k): the embedding call returns, the
\* matching completes and ScoringAgent.process scores the candidate
match_and_score_cv(j, k) ==
    /\ pc[j] = "score"
    /\ k \in DOMAIN candidate_scores[j]
    /\ candidate_scores[j][k].st = "emb"
    /\ LET cv == candidate_scores[j][k].cv
           jd == jd_data[j]
           skills == parsed_cvs[j][cv].cv_data.skills
       IN  \E embedded \in BOOLEAN, similarity \in Semantics, total \in Totals,
              raises \in (IF MayBeMalformed(j, cv) THEN BOOLEAN ELSE {FALSE}) :
              candidate_scores' = [candidate_scores EXCEPT ![j][k] =
                  IF raises
                  THEN [@ EXCEPT !.st = "none"]
                  ELSE [st |-> "ok", cv |-> cv,
                        score |-> CandidateScore(cv, total,
                            calculate_skills_score(
                                match_percentage(jd.must_have_skills, skills),
                                semantic_match(j, embedded, similarity),
                                matched_nice_to_have(jd.nice_to_have_skills, skills)),
                            missing_must_have(jd.must_have_skills, skills))]]
    /\ UNCHANGED << api, job_store, redis_session, pc, cv_files, jd_text, jd_llm, jd_data,
                    jd_result, ranking_result, jd_embeddings, parsed_cvs, ranking_input,
                    result, removed, submit_response >>
    /\ query_response' = NoQuery
    /\ UNCHANGED call

\* successful_scores: the task results that are neither an exception nor None
RECURSIVE successful_scores(_)
successful_scores(tasks) ==
    IF tasks = << >> THEN << >>
    ELSE LET rest == successful_scores(Tail(tasks))
         IN  IF Head(tasks).st = "ok" THEN << Head(tasks).score >> \o rest ELSE rest

\* an orchestrator that reports the number of CVs that failed to parse as
\* total_cvs_parsed
compile_results_failed_count(j, ranked) ==
    IF ~ ranked.success
    THEN handle_error("Failed to rank candidates")
    ELSE [present |-> TRUE, success |-> TRUE,
          total_cvs_submitted |-> Len(cv_files[j]),
          total_cvs_parsed |-> Len(parsed_cvs[j]) - Len(successful_cvs(parsed_cvs[j])),
          total_candidates_ranked |-> IF ranked.has_summary
                                      THEN ranked.total_candidates ELSE 0,
          ranked_candidates |-> ranked.ranked_candidates,
          tier_distribution |-> IF ranked.has_summary THEN ranked.tiers ELSE EmptyDist,
          error |-> Absent]

\* OrchestratorAgent.process, lines 167-178 (and 156-157, 180-182 on a
\* ranking failure)
compile_results(j, ranked) ==
    IF ~ ranked.success
    THEN handle_error("Failed to rank candidates")
    ELSE [present |-> TRUE, success |-> TRUE,
          total_cvs_submitted |-> Len(cv_files[j]),
          total_cvs_parsed |-> Len(successful_cvs(parsed_cvs[j])),
          total_candidates_ranked |-> IF ranked.has_summary
                                      THEN ranked.total_candidates ELSE 0,
          ranked_candidates |-> ranked.ranked_candidates,
          tier_distribution |-> IF ranked.has_summary
                                THEN ranked.tiers ELSE EmptyDist,
          error |-> Absent]

\* gather of the score tasks returns; the ranking agent runs and
\* OrchestratorAgent.process returns
score_gather(j) ==
    /\ pc[j] = "score"
    /\ \A k \in DOMAIN candidate_scores[j] : candidate_scores[j][k].st \in {"ok", "none"}
    /\ \E scores \in {successful_scores(candidate_scores[j])} :
          \E ranked \in {ranking_process(scores, jd_data[j])} :
             /\ ranking_input' = [ranking_input EXCEPT ![j] = scores]
             /\ ranking_result' = [ranking_result EXCEPT ![j] =
                    IF ranked.success THEN "ok" ELSE "failed"]
             /\ result' = [result EXCEPT ![j] = compile_results(j, ranked)]
    /\ pc' = [pc EXCEPT ![j] = "write"]
    /\ UNCHANGED << api, job_store, redis_session, cv_files, jd_text, jd_llm, jd_data,
                    jd_result, jd_embeddings, parsed_cvs, candidate_scores, removed,
                    submit_response >>
    /\ query_response' = NoQuery
    /\ UNCHANGED call

\* an update that puts the orchestrator's result dict into the record on
\* the failure branch too
main_terminal_record_keeps_result(rec, res) ==
    IF res.success
    THEN DictUpdate(rec, "completed", res, Absent)
    ELSE DictUpdate(rec, "failed", res, res.error)

\* main.py lines 236-249: job_store[job_id].update(...)
main_terminal_record(rec, res) ==
    IF res.success
    THEN DictUpdate(rec, "completed", res, Absent)
    ELSE DictUpdate(rec, "failed", NoResults, res.error)

\* CreateRankingJobService lines 70-91: redis_session.set(job_id, {...})
service_terminal_record(res, n) ==
    IF res.success
    THEN [NoRecord EXCEPT !.status = WorkflowStatusConstant["COMPLETED"], !.results = res,
                          !.completed_at = "t_done", !.cv_count = n]
    ELSE [NoRecord EXCEPT !.status = WorkflowStatusConstant["FAILED"], !.error = res.error,
                          !.completed_at = "t_done", !.cv_count = n]

store_terminal(j) ==
    /\ pc[j] = "write"
    /\ IF api[j] = "main"
       THEN /\ job_store' = [job_store EXCEPT ![j] = main_terminal_record(@, result[j])]
            /\ UNCHANGED redis_session
       ELSE /\ redis_session' = [redis_session EXCEPT ![j] =
                   service_terminal_record(result[j], Len(cv_files[j]))]
            /\ UNCHANGED job_store
    /\ pc' = [pc EXCEPT ![j] = IF Len(cv_files[j]) = 0 THEN "done" ELSE "cleanup"]
    /\ UNCHANGED << api, cv_files, jd_text, pipeline, submit_response >>
    /\ query_response' = NoQuery
    /\ UNCHANGED call

\* a cleanup loop whose os.remove is not guarded: a throw reaches the outer
\* handler of process_ranking_job, which stores a failed record
remove_cv_files_unguarded(j) ==
    /\ pc[j] = "cleanup"
    /\ \E thrown \in BOOLEAN :
          IF thrown
          THEN /\ \E n \in DOMAIN cv_files[j] : removed' = [removed EXCEPT ![j] = 1..n]
               /\ IF api[j] = "main"
                  THEN /\ job_store' = [job_store EXCEPT ![j] =
                              DictUpdate(@, "failed", @.results, "os.remove")]
                       /\ UNCHANGED redis_session
                  ELSE /\ redis_session' = [redis_session EXCEPT ![j] =
                              service_terminal_record(handle_error("os.remove"),
                                                      Len(cv_files[j]))]
                       /\ UNCHANGED job_store
          ELSE /\ removed' = [removed EXCEPT ![j] = DOMAIN cv_files[j]]
               /\ UNCHANGED << job_store, redis_session >>
    /\ pc' = [pc EXCEPT ![j] = "done"]
    /\ UNCHANGED << api, cv_files, jd_text, jd_llm, jd_data, jd_result, ranking_result,
                    jd_embeddings, parsed_cvs, candidate_scores, ranking_input, result,
                    submit_response >>
    /\ query_response' = NoQuery
    /\ UNCHANGED call

\* the cleanup loop, which runs to its end without an await: os.remove is
\* attempted on every file, and a throw is caught and logged.  The refs of a
\* job Submit stored all carry the file_path of the file it saved.
remove_cv_files(j) ==
    /\ pc[j] = "cleanup"
    /\ \E thrown \in SUBSET DOMAIN cv_files[j] :
          removed' = [removed EXCEPT ![j] = DOMAIN cv_files[j]]
    /\ pc' = [pc EXCEPT ![j] = "done"]
    /\ UNCHANGED << api, job_store, redis_session, cv_files, jd_text, jd_llm, jd_data,
                    jd_result, ranking_result, jd_embeddings, parsed_cvs, candidate_scores,
                    ranking_input, result, submit_response >>
    /\ query_response' = NoQuery
    /\ UNCHANGED call

\* ---------------------------------------------------------------- queries
\* the answer of a status query over a record: job_data.get("created_at")
\* and job_data.get("cv_count", 0) among its fields
StatusAnswer(store, j, rec) ==
    IF rec = NoRecord
    THEN Response("status", store, j, "not_found", Absent, 0)
    ELSE [Response("status", store, j, "ok", rec.status, 0)
             EXCEPT !.created_at = rec.created_at,
                    !.cv_count = IF rec.cv_count = -1 THEN 0 ELSE rec.cv_count]

\* the candidates a results query returns: all of them, or the first top_n
TopN(ranked, top_n) == IF top_n # 0 THEN Min(Len(ranked), top_n) ELSE Len(ranked)

\* a results query that does not look at the status of the record
ResultsAnswer_unchecked(store, j, rec, top_n) ==
    IF rec = NoRecord
    THEN Response("results", store, j, "not_found", Absent, 0)
    ELSE Response("results", store, j, "ok", rec.status,
                  TopN(rec.results.ranked_candidates, top_n))

\* the answer of a results query over a record
ResultsAnswer(store, j, rec, top_n) ==
    IF rec = NoRecord
    THEN Response("results", store, j, "not_found", Absent, 0)
    ELSE IF rec.status # "completed"
    THEN Response("results", store, j, "bad_input", rec.status, 0)
    ELSE Response("results", store, j, "ok", rec.status,
                  TopN(rec.results.ranked_candidates, top_n))

QueryFrame == UNCHANGED << api, job_store, redis_session, pc, cv_files, jd_text, pipeline,
                           submit_response, call >>

\* main.py get_ranking_status
get_ranking_status(j) ==
    /\ query_response' = StatusAnswer("job_store", j, job_store[j])
    /\ QueryFrame

\* main.py get_ranking_results
get_ranking_results(j) ==
    /\ \E top_n \in {0, 1} :
          query_response' = ResultsAnswer("job_store", j, job_store[j], top_n)
    /\ QueryFrame

\* FetchRankingJobStatusService.run
fetch_status_run(j) ==
    /\ query_response' = StatusAnswer("redis_session", j, redis_session[j])
    /\ QueryFrame

\* FetchRankingJobResultService.run
fetch_result_run(j) ==
    /\ \E top_n \in {0, 1} :
          query_response' = ResultsAnswer("redis_session", j, redis_session[j], top_n)
    /\ QueryFrame

\* ------------------------------------------------------------ specification
Run(j) ==
    \/ process_ranking_job(j)
    \/ service_process_ranking_job(j)
    \/ analyze_with_llm(j)
    \/ generate_embeddings(j)
    \/ \E i \in 1..MaxCvs : parse_cv_extract(j, i)
    \/ \E i \in 1..MaxCvs : parse_with_llm(j, i)
    \/ parse_gather(j)
    \/ \E k \in 1..MaxCvs : match_skills(j, k)
    \/ \E k \in 1..MaxCvs : match_and_score_cv(j, k)
    \/ score_gather(j)
    \/ store_terminal(j)
    \/ remove_cv_files(j)

Submit(j) ==
    \/ create_ranking_job(j)
    \/ service_run(j)

Query(j) ==
    \/ get_ranking_status(j)
    \/ get_ranking_results(j)
    \/ fetch_status_run(j)
    \/ fetch_result_run(j)

Next == \E j \in Jobs : Submit(j) \/ Run(j)

Spec == Init /\ [][Next]_vars

\* the same program with its callers' status and results queries
QueryNext == \E j \in Jobs : Submit(j) \/ Run(j) \/ Query(j)

QuerySpec == Init /\ [][QueryNext]_vars

\* a scheduled background task is started and every step of a started Run
\* is eventually taken: the event loop resumes a coroutine once the
\* collaborator call it awaits has returned or thrown
Resume(j) == pc[j] # "idle" /\ Run(j)

FairSpec == Spec /\ \A j \in Jobs : WF_vars(Resume(j))

\* ------------------------------------------------------ the agents alone
\* The agents are also callable on their own; each call below hands an agent
\* an input drawn from a bounded set and records what it returns.  The
\* agents keep no state between calls, so one call is made per behaviour.
LifecycleFrame == UNCHANGED << api, job_store, redis_session, pc, cv_files, jd_text,
                               pipeline, submit_response, query_response >>

\* totals around the thresholds of the filter and of the tiers
RankTotals == {29, 30, 55, 70, 84, 85}

\* skills_match values (tenths of a point) on both sides of the filter
RankSkills == {399, 400}

\* missing_skills lists a candidate may carry
RankMissing == { << >>, << "python" >>, << "Docker" >> }

\* candidate score dicts handed to the ranking agent
RankCandidates ==
    UNION { [1..n -> { CandidateScore(0, t, sk, m) :
                          t \in RankTotals, sk \in RankSkills, m \in RankMissing }]
            : n \in 0..MaxCvs }

\* the JDs handed to the ranking agent: those of the pipeline and one that
\* spells its critical skill with a capital
RankJDs == LlmJDs \cup {DefaultJD} \cup
           { [kind |-> "llm",
              must_have_skills |-> << Skill("Python", 9, TRUE), Skill("Docker", 8, TRUE) >>,
              nice_to_have_skills |-> << >>] }

\* candidate i of the input is told apart by its cv id
WithIds(candidates) == [i \in DOMAIN candidates |-> [candidates[i] EXCEPT !.cv = i]]

\* a direct call of RankingAgent.process
RankingAgent_process ==
    /\ call = NoCall
    /\ \E candidates \in RankCandidates, jd \in RankJDs :
          \E input \in {WithIds(candidates)} :
             call' = [fn |-> "rank", candidates |-> input, jd |-> jd,
                      out |-> ranking_process(input, jd)]
    /\ LifecycleFrame

\* scoring_weights of a JD, in hundredths: the defaults and two sets as the
\* LLM may adjust them, one adding up to more than 1 and one to less
ScoringWeights ==
    { [skills |-> 40, experience |-> 30, education |-> 15, career_trajectory |-> 10],
      [skills |-> 60, experience |-> 60, education |-> 15, career_trajectory |-> 10],
      [skills |-> 20, experience |-> 20, education |-> 10, career_trajectory |-> 10] }

\* what the scoring agent reads from the match result and the CV
ScoringInputs ==
    [match_percentage : {0, 50, 100}, semantic_score : Semantics,
     matched_nice_to_have : {0, 1}, cv_years : {0, 2, 5, 12}, required_years : {0, 4},
     has_education : BOOLEAN, meets_requirement : BOOLEAN, technical : BOOLEAN,
     experiences : {0, 2}, progressing : BOOLEAN, companies : {1, 2, 5}]

\* a direct call of ScoringAgent.process
ScoringAgent_process ==
    /\ call = NoCall
    /\ \E weights \in ScoringWeights, m \in ScoringInputs :
          call' = [fn |-> "score", weights |-> weights, matches |-> m,
                   out |-> scoring_process(weights, m)]
    /\ LifecycleFrame

\* skill names a JD may require: "Go!", "ML Ops", "SQL API Data"
JdSkillNames == { << "G", "o", "!" >>,
                  << "M", "L", " ", "O", "p", "s" >>,
                  << "S", "Q", "L", " ", "A", "P", "I", " ", "D", "a", "t", "a" >> }

\* skill names a CV may list: "GO", "ml", "ML  ops", "data sql", "Data"
CvSkillNames == { << "G", "O" >>,
                  << "m", "l" >>,
                  << "M", "L", " ", " ", "o", "p", "s" >>,
                  << "d", "a", "t", "a", " ", "s", "q", "l" >>,
                  << "D", "a", "t", "a" >> }

MaxMustHave == 2

MustHaveLists == UNION { [1..n -> [skill : JdSkillNames, weight : {10}]] : n \in 0..MaxMustHave }
NiceToHaveLists == { << >> } \cup { << [skill |-> n, weight |-> 5] >> : n \in JdSkillNames }

\* a direct call of MatchingAgent._match_skills
MatchingAgent_match_skills ==
    /\ call = NoCall
    /\ \E skills \in SUBSET CvSkillNames, must_have \in MustHaveLists,
          nice_to_have \in NiceToHaveLists :
          call' = [fn |-> "match_skills", skills |-> skills, must_have |-> must_have,
                   out |-> match_skills_result(skills, must_have, nice_to_have)]
    /\ LifecycleFrame

\* embedding vectors the collaborator may return: two components, one
\* component (a length the other side does not have) and none
EmbeddingVectors == [1..2 -> {-1, 0, 1}] \cup { << 1 >>, << >> }

\* what generate_embeddings([cv_summary]) may do
CvEmbeddings ==
    { [raises |-> TRUE, vectors |-> << >>], [raises |-> FALSE, vectors |-> << >>] }
        \cup { [raises |-> FALSE, vectors |-> << v >>] : v \in EmbeddingVectors }

\* a direct call of MatchingAgent._semantic_match
MatchingAgent_semantic_match ==
    /\ call = NoCall
    /\ \E cv_embedding \in CvEmbeddings, full_description \in EmbeddingVectors :
          call' = [fn |-> "semantic_match", cv_embedding |-> cv_embedding,
                   full_description |-> full_description,
                   out |-> semantic_match_direct(cv_embedding, full_description)]
    /\ LifecycleFrame

\* a CV ref without the "file_path" key (its file type is never looked at:
\* the parser raises on the missing path first)
NoFilePath == "no_file_path"

CvRefs == FileTypes \cup {NoFilePath}

\* main.py lines 251-256, the cleanup loop over the refs handed to the
\* coroutine.  os.remove throwing is caught and logged.  For a ref without
\* file_path the lookup cv_file["file_path"] raises KeyError before os.remove
\* is called, the handler catches it and raises KeyError again while
\* formatting its log message, and that exception leaves the loop.
cleanup_loop(refs) ==
    LET keyless == { i \in DOMAIN refs : refs[i] = NoFilePath }
    IN  IF keyless = {} THEN [attempted |-> DOMAIN refs, escaped |-> FALSE]
        ELSE [attempted |-> { i \in DOMAIN refs : \A k \in keyless : i < k },
              escaped |-> TRUE]

\* main.py process_ranking_job, lines 222-264, run in one piece on a stored
\* record rec with refs cv and the dict res that orchestrator.process
\* returns: written is the record after the terminal write, record the one
\* the coroutine leaves, attempted the refs os.remove was called on.
process_ranking_job_outcome(rec, res, refs) ==
    LET written == main_terminal_record([rec EXCEPT !.status = "processing"], res)
        loop == cleanup_loop(refs)
    IN  [written |-> written,
         attempted |-> loop.attempted,
         record |-> IF loop.escaped
                    THEN DictUpdate(written, "failed", NoResults, "'file_path'")
                    ELSE written]

\* the dicts orchestrator.process may return to the coroutine
OrchestratorResults(n) ==
    { handle_error("Failed to analyze job description"),
      [NoResults EXCEPT !.present = TRUE, !.success = TRUE, !.total_cvs_submitted = n] }

\* a direct call of main.py process_ranking_job for a stored job
process_ranking_job_direct ==
    /\ call = NoCall
    /\ \E n \in 1..MaxCvs :
          \E refs \in [1..n -> CvRefs], thrown \in SUBSET (1..n),
             res \in OrchestratorResults(n) :
             call' = [fn |-> "run", refs |-> refs, thrown |-> thrown,
                      out |-> process_ranking_job_outcome(
                                  [NoRecord EXCEPT !.status = "processing",
                                                   !.created_at = "t_submit",
                                                   !.cv_count = n],
                                  res, refs)]
    /\ LifecycleFrame

\* What the tasks of one CV will do, fixed before the run: its analysis
\* succeeds or not, its match+score yields a score or None, and the total
GatherTotals == {60, 90}
TaskOutcomes == [parsed : BOOLEAN, scored : BOOLEAN, total : GatherTotals]

\* the list asyncio.gather returns as if it followed the order done in
\* which the tasks completed
gather_in_completion_order(results, done) == [n \in DOMAIN done |-> results[done[n]]]

\* asyncio.gather(*tasks): the results come in the order of the tasks it was
\* given, whatever the order done in which they completed
gather(results, done) == [i \in DOMAIN results |-> results[i]]

\* the elements of s that satisfy field f, in order
RECURSIVE Successful(_, _)
Successful(s, f) ==
    IF s = << >> THEN << >>
    ELSE (IF Head(s)[f] THEN << Head(s) >> ELSE << >>) \o Successful(Tail(s), f)

\* OrchestratorAgent.process from the creation of the parse tasks on, with
\* the order of completion of the sibling tasks kept in parse_done and
\* score_done
orchestrator_gather_start ==
    /\ call = NoCall
    /\ \E n \in 0..MaxCvs : \E outcomes \in [1..n -> TaskOutcomes] :
          call' = [fn |-> "gather", stage |-> "parse",
                   tasks |-> [i \in 1..n |-> [cv |-> i, parsed |-> outcomes[i].parsed,
                                               scored |-> outcomes[i].scored,
                                               total |-> outcomes[i].total]],
                   parse_done |-> << >>, successful_cvs |-> << >>,
                   score_done |-> << >>, ranked |-> << >>]
    /\ LifecycleFrame

\* one _parse_cv task completes
parse_cv_completes(i) ==
    /\ call.fn = "gather"
    /\ call.stage = "parse"
    /\ i \in DOMAIN call.tasks
    /\ i \notin SeqToSet(call.parse_done)
    /\ call' = [call EXCEPT !.parse_done = Append(@, i)]
    /\ LifecycleFrame

\* lines 115-121: the parse gather returns and the failed parses are dropped
parse_gather_returns ==
    /\ call.fn = "gather"
    /\ call.stage = "parse"
    /\ Len(call.parse_done) = Len(call.tasks)
    /\ call' = [call EXCEPT !.stage = "score",
                            !.successful_cvs =
                                Successful(gather(call.tasks, call.parse_done), "parsed")]
    /\ LifecycleFrame

\* one _match_and_score_cv task completes
match_and_score_cv_completes(k) ==
    /\ call.fn = "gather"
    /\ call.stage = "score"
    /\ k \in DOMAIN call.successful_cvs
    /\ k \notin SeqToSet(call.score_done)
    /\ call' = [call EXCEPT !.score_done = Append(@, k)]
    /\ LifecycleFrame

\* lines 138-154: the score gather returns, the tasks that gave None are
\* dropped and RankingAgent.process ranks the rest
score_gather_returns ==
    /\ call.fn = "gather"
    /\ call.stage = "score"
    /\ Len(call.score_done) = Len(call.successful_cvs)
    /\ \E scores \in {Successful(gather(call.successful_cvs, call.score_done), "scored")} :
          call' = [call EXCEPT !.stage = "ranked",
                               !.ranked = ranking_process(
                                   [n \in DOMAIN scores |->
                                       CandidateScore(scores[n].cv, scores[n].total, 500, << >>)],
                                   DefaultJD).ranked_candidates]
    /\ LifecycleFrame

\* experience entries as the LLM may return them
ExperienceEntries == [start_date : {"2019-01", "2021-06"}, end_date : {"2021-06", "null"}]

MaxExperience == 2

\* the JSON documents the LLM may return for a CV
LlmCvDicts == UNION { [name : {"John Doe"}, experience : [1..n -> ExperienceEntries]] :
                      n \in 0..MaxExperience }

\* ParserAgent._parse_with_llm once json.loads has succeeded, lines 225-250.
\* With no experience entry the loop body is not run and the total is 0.0.
\* With one, the first pass of the loop looks up
\* self._calculate_duration_months, a method that neither ParserAgent nor
\* BaseAgent defines: the AttributeError is caught at line 246 and
\* _fallback_parsing supplies the profile.
parse_with_llm_direct(cv_dict) ==
    IF cv_dict.experience = << >>
    THEN [kind |-> "parsed", name |-> cv_dict.name, experience |-> << >>,
          total_experience_years |-> 0]
    ELSE [kind |-> "fallback", name |-> "", experience |-> << >>,
          total_experience_years |-> 0]

\* a direct call of ParserAgent._parse_with_llm with an LLM that answers
\* parsable JSON
ParserAgent_parse_with_llm ==
    /\ call = NoCall
    /\ \E cv_dict \in LlmCvDicts :
          call' = [fn |-> "parse_with_llm", cv_dict |-> cv_dict,
                   out |-> parse_with_llm_direct(cv_dict)]
    /\ LifecycleFrame

\* roles by the keywords their names contain: "Senior Engineer",
\* "Developer", "Intern"
RoleKeywords == { {"senior", "engineer"}, {"developer"}, {} }

\* how the employers of a CV's entries repeat: one employer throughout, two
\* in alternation, a new one for every entry
CompanyPatterns == {"same", "two", "distinct"}

company_of(pattern, i) ==
    IF pattern = "same" THEN 1 ELSE IF pattern = "two" THEN 1 + (i % 2) ELSE i

MaxRoles == 6

ExperienceLists ==
    UNION { { [i \in 1..n |-> [keywords |-> roles[i], company |-> company_of(pattern, i)]] :
              roles \in [1..n -> RoleKeywords], pattern \in CompanyPatterns } :
            n \in 0..MaxRoles }

\* a direct call of ScoringAgent._calculate_career_trajectory_score
ScoringAgent_career_trajectory ==
    /\ call = NoCall
    /\ \E experience \in ExperienceLists :
          call' = [fn |-> "career", experience |-> experience,
                   out |-> career_trajectory_of(experience)]
    /\ LifecycleFrame

\* matches dicts with and without a semantic score; matched_nice_to_have is
\* the length of that list
SkillMatches ==
    [match_percentage : {0, 50, 100}, matched_nice_to_have : {0, 1, 5, 6}]
        \cup [match_percentage : {0, 50, 100}, matched_nice_to_have : {0, 1, 5, 6},
              semantic_score : {0, 50, 100}]

\* a direct call of ScoringAgent._calculate_skills_score
ScoringAgent_calculate_skills_score ==
    /\ call = NoCall
    /\ \E matches \in SkillMatches :
          call' = [fn |-> "skills_score", matches |-> matches,
                   out |-> skills_score_of(matches)]
    /\ LifecycleFrame

\* file types and file name extensions a caller may hand to _extract_text
ExtractTypes == {"pdf", "docx", "txt", "xyz"}

\* ParserAgent._extract_text: the PDF extractor is used when file_type is
\* "pdf" or the path ends in ".pdf", and its exception is re-raised; every
\* other input raises ValueError("Unsupported file type: ...")
extract_text(file_type, extension, reader_throws) ==
    IF file_type = "pdf" \/ extension = "pdf"
    THEN IF reader_throws THEN [raised |-> TRUE, error |-> "pdfplumber", text |-> "none"]
         ELSE [raised |-> FALSE, error |-> "none", text |-> "cleaned"]
    ELSE [raised |-> TRUE, error |-> "Unsupported file type", text |-> "none"]

\* a direct call of ParserAgent._extract_text
ParserAgent_extract_text ==
    /\ call = NoCall
    /\ \E file_type \in ExtractTypes, extension \in ExtractTypes, reader_throws \in BOOLEAN :
          call' = [fn |-> "extract_text", file_type |-> file_type, extension |-> extension,
                   reader_throws |-> reader_throws,
                   out |-> extract_text(file_type, extension, reader_throws)]
    /\ LifecycleFrame

AgentNext ==
    \/ ParserAgent_extract_text
    \/ ScoringAgent_calculate_skills_score
    \/ ScoringAgent_career_trajectory
    \/ ParserAgent_parse_with_llm
    \/ orchestrator_gather_start
    \/ \E i \in 1..MaxCvs : parse_cv_completes(i)
    \/ parse_gather_returns
    \/ \E k \in 1..MaxCvs : match_and_score_cv_completes(k)
    \/ score_gather_returns
    \/ process_ranking_job_direct
    \/ RankingAgent_process
    \/ ScoringAgent_process
    \/ MatchingAgent_match_skills
    \/ MatchingAgent_semantic_match

AgentSpec == Init /\ [][AgentNext]_vars

\* ------------------------------------------------------------- properties
TerminalStatuses == {"completed", "failed"}

C2_SubmitStoresBeforeScheduling ==
    \A j \in Jobs :
        submit_response[j] # "none"
            => /\ submit_response[j] = "processing"
               /\ Stored(j) # NoRecord
               /\ Stored(j).cv_count = Len(cv_files[j])
               /\ pc[j] = "scheduled" => Stored(j).status = "processing"

\* the CVs whose analysis task succeeded
ParsedOk(j) == { i \in DOMAIN parsed_cvs[j] : parsed_cvs[j][i].st = "ok" }

\* the CVs whose match+score task succeeded
ScoredOk(j) ==
    { candidate_scores[j][k].cv : k \in { n \in DOMAIN candidate_scores[j] :
                                              candidate_scores[j][n].st = "ok" } }

Returned(j) == pc[j] \in {"write", "cleanup", "done"}

Written(j) == pc[j] \in {"cleanup", "done"}

NonEmptyError(e) == e \notin {Absent, ""}

\* C4: when JD analysis fails, or ranking reports failure or throws, Run
\* returns success false with an error, the stored record ends failed with
\* a non-empty error message, and the job is never completed.
C4_StageFailureFailsJob ==
    \A j \in Jobs :
        (jd_result[j] = "failed" \/ ranking_result[j] = "failed")
            => /\ Returned(j)
               /\ result[j].present
               /\ ~ result[j].success
               /\ NonEmptyError(result[j].error)
               /\ Stored(j).status # "completed"
               /\ Written(j) => /\ Stored(j).status = "failed"
                                /\ NonEmptyError(Stored(j).error)
                                /\ ~ Stored(j).results.present

\* a job that ended failed because the ranking agent reported failure
C4_Witness ==
    \E j \in Jobs : /\ ranking_result[j] = "failed"
                    /\ pc[j] = "done"
                    /\ Stored(j).status = "failed"

\* the CVs whose analysis task has ended
Analysed(j) == { i \in DOMAIN parsed_cvs[j] : parsed_cvs[j][i].st \in {"ok", "failed"} }

Structured(j) == { i \in DOMAIN parsed_cvs[j] : parsed_cvs[j][i].llm # "none" }

\* C6: when generate throws or returns unparsable output while a CV whose
\* text was extracted is structured, the CV's analysis succeeds with the
\* minimal profile (no skills, experience or education,
\* total_experience_years 0, summary cut from the raw text) and the CV is
\* counted in total_cvs_parsed.
C6_CvFallbackProfile ==
    \A j \in Jobs :
        /\ \A i \in DOMAIN parsed_cvs[j] :
              parsed_cvs[j][i].llm = "failed"
                  => /\ parsed_cvs[j][i].st = "ok"
                     /\ parsed_cvs[j][i].cv_data.skills = {}
                     /\ parsed_cvs[j][i].cv_data.experience = 0
                     /\ parsed_cvs[j][i].cv_data.education = 0
                     /\ parsed_cvs[j][i].cv_data.total_experience_years = 0
                     /\ parsed_cvs[j][i].cv_data.summary = "text[:500]"
        /\ result[j].success => result[j].total_cvs_parsed = Cardinality(Structured(j))

\* a returned job that counts a CV carrying the minimal profile
C6_Witness ==
    \E j \in Jobs :
        /\ result[j].success
        /\ result[j].total_cvs_parsed >= 1
        /\ \E i \in DOMAIN parsed_cvs[j] : parsed_cvs[j][i].llm = "failed"

Begun(j) == pc[j] \notin {"idle", "scheduled"}

\* C7: every Run that has begun eventually ends, with the stored status
\* completed or failed.
C7_RunTerminates ==
    \A j \in Jobs :
        Begun(j) ~> (pc[j] = "done" /\ Stored(j).status \in TerminalStatuses)

\* a job with several CVs that went through the whole pipeline and ended
C7_Witness ==
    \E j \in Jobs : /\ pc[j] = "done"
                    /\ ranking_result[j] = "ok"
                    /\ Len(cv_files[j]) >= 2
                    /\ Stored(j).status \in TerminalStatuses

Records(j) == {job_store[j], redis_session[j]} \ {NoRecord}

Queried(q) == IF q.store = "job_store" THEN job_store[q.job] ELSE redis_session[q.job]

\* C9: a results query returns ranked candidates exactly when the record it
\* reads has status completed; a record with another status gets BadInput
\* naming that status, no record gets NotFound, and the store is left as
\* it was.
C9_ResultsOnlyWhenCompleted ==
    [][query_response'.op = "results"
          => LET q == query_response'
                 rec == Queried(q)
             IN  /\ UNCHANGED << job_store, redis_session >>
                 /\ q.outcome = "not_found" <=> rec = NoRecord
                 /\ q.outcome = "bad_input" <=> (rec # NoRecord /\ rec.status # "completed")
                 /\ q.outcome = "bad_input" => q.status = rec.status
                 /\ q.outcome = "ok" <=> (rec # NoRecord /\ rec.status = "completed")
                 /\ q.outcome = "ok" => q.candidates <= Len(rec.results.ranked_candidates)
                 /\ q.outcome # "ok" => q.candidates = 0]_vars

\* a results query answered BadInput while the job is processing
C9_Witness ==
    /\ query_response.op = "results"
    /\ query_response.outcome = "bad_input"
    /\ query_response.status = "processing"

\* C10: for a completed job total_cvs_parsed is at most cv_count and
\* total_candidates_ranked is at most total_cvs_parsed.
C10_CountsOrdered ==
    \A j \in Jobs : \A rec \in Records(j) :
        rec.status = "completed"
            => /\ rec.results.total_cvs_parsed <= rec.cv_count
               /\ rec.results.total_candidates_ranked <= rec.results.total_cvs_parsed

\* a completed job that ranked fewer CVs than it parsed and parsed fewer
\* than were submitted
C10_Witness ==
    \E j \in Jobs : \E rec \in Records(j) :
        /\ rec.status = "completed"
        /\ rec.results.total_candidates_ranked < rec.results.total_cvs_parsed
        /\ rec.results.total_cvs_parsed < rec.cv_count

\* the ranked sequence of a successful direct call of the ranking agent
Ranked == IF call.fn = "rank" /\ call.out.success THEN call.out.ranked_candidates ELSE << >>

Carrying(ranked, t) == { i \in DOMAIN ranked : ranked[i].tier = t }

\* the sum of the counts a tier distribution holds for the tiers of S
RECURSIVE SumCounts(_, _)
SumCounts(dist, S) ==
    IF S = {} THEN 0
    ELSE LET t == CHOOSE x \in S : TRUE
         IN  dist[t] + SumCounts(dist, S \ {t})

TierLevel(t) == IF t = "A" THEN 4 ELSE IF t = "B" THEN 3 ELSE IF t = "C" THEN 2 ELSE 1

Qualifies(c, jd) ==
    /\ c.total >= 30
    /\ c.skills_match >= 400
    /\ ~ \E k \in DOMAIN jd.must_have_skills, m \in DOMAIN c.missing_skills :
            /\ jd.must_have_skills[k].weight >= 9
            /\ Lower(jd.must_have_skills[k].skill) = Lower(c.missing_skills[m])

C16_RankIdempotent ==
    (call.fn = "rank" /\ call.out.success)
        => LET again == ranking_process(call.out.ranked_candidates, call.jd)
           IN  /\ again.success
               /\ again.ranked_candidates = call.out.ranked_candidates
               /\ again.has_summary = call.out.has_summary
               /\ again.tiers = call.out.tiers

\* a sub-score in tenths of a point within [0,100]
InRange(score) == score >= 0 /\ score <= 1000

\* C17: whatever the candidate, the match result and the JD, scoring
\* weights that do not add up to 1 included, Score yields total,
\* skills_match, experience_relevance, education_fit and career_trajectory
\* within [0,100] and confidence within [0,1].
C17_ScoresInRange ==
    call.fn = "score"
        => /\ call.out.total >= 0
           /\ call.out.total <= 100000
           /\ InRange(call.out.skills_match)
           /\ InRange(call.out.experience_relevance)
           /\ InRange(call.out.education_fit)
           /\ InRange(call.out.career_trajectory)
           /\ call.out.confidence >= 0
           /\ call.out.confidence <= 100

\* the names on the matched list of a skills match
MatchedNames(out) == { out.matched_must_have[i].skill : i \in DOMAIN out.matched_must_have }

\* the word tokens of a normalized skill name
Tokens(name) == SeqToSet(split(normalize_skill(name)))

\* a required skill equals a candidate skill after normalization, or some
\* candidate skill shares strictly more than half of its word tokens
Accepted(name, skills) ==
    \/ \E sk \in skills : normalize_skill(sk) = normalize_skill(name)
    \/ \E sk \in skills :
          2 * Cardinality(Tokens(name) \cap Tokens(sk)) > Cardinality(Tokens(name))

\* C18: Match places every must-have skill of the JD in exactly one of the
\* matched and missing lists, in the matched one iff its normalized name
\* equals a normalized candidate skill or some candidate skill shares
\* strictly more than half of its word tokens; match_percentage is
\* 100 * matched / must-haves, and 0 when the JD has no must-have skill.
C18_MustHavePartition ==
    call.fn = "match_skills"
        => LET out == call.out
               must == call.must_have
           IN  /\ \A i \in DOMAIN must :
                     /\ (must[i].skill \in MatchedNames(out))
                            # (must[i].skill \in SeqToSet(out.missing_must_have))
                     /\ (must[i].skill \in MatchedNames(out))
                            <=> Accepted(must[i].skill, call.skills)
               /\ Len(out.matched_must_have) + Len(out.missing_must_have) = Len(must)
               /\ out.match_percentage
                     = IF Len(must) = 0 THEN 0
                       ELSE (100 * Len(out.matched_must_have)) \div Len(must)

\* "SQL API Data" is matched by "data sql" alone (two tokens of three) while
\* "ML Ops" is missing although "ml" shares exactly half of its tokens
C18_Witness ==
    /\ call.fn = "match_skills"
    /\ call.skills = { << "m", "l" >>, << "d", "a", "t", "a", " ", "s", "q", "l" >> }
    /\ Len(call.out.matched_must_have) = 1
    /\ Len(call.out.missing_must_have) = 1
    /\ call.out.missing_must_have[1] = << "M", "L", " ", "O", "p", "s" >>
    /\ call.out.match_percentage = 50

\* C19: a failure of the embedding collaborator never fails a candidate:
\* when embedding the CV summary throws or returns nothing, or the JD
\* full-description embedding is unavailable, the semantic match still
\* returns, with semantic_score = 50; in every other case semantic_score
\* lies within [0,100].
C19_EmbeddingFailureNeutral ==
    call.fn = "semantic_match"
        => /\ ~ call.out.raised
           /\ (call.cv_embedding.raises \/ call.cv_embedding.vectors = << >>
                  \/ call.full_description = << >>)
                 => call.out.score = 500
           /\ InRange(call.out.score)

\* the embedding call threw while the JD embedding was there, and the
\* semantic match returned the neutral score
C19_Witness ==
    /\ call.fn = "semantic_match"
    /\ call.cv_embedding.raises
    /\ call.full_description = << 1, -1 >>
    /\ call.out = [raised |-> FALSE, score |-> 500]

\* C20: on every path by which Run ends (job completed, job failed by a
\* fatal pipeline step, or job failed by an unexpected exception such as a
\* store write throwing), deletion has been attempted for every temporary
\* CV file of the job.
C20_CleanupOnEveryPath ==
    \A j \in Jobs : pc[j] = "done" => removed[j] = DOMAIN cv_files[j]

\* C21: a failure while cleaning up one CV file (the delete throwing, or
\* the CV ref carrying no file path) is only logged: deletion is still
\* attempted for the remaining CV files and the job's stored record stays
\* exactly as it was written before cleanup began.
C21_CleanupFailureOnlyLogged ==
    call.fn = "run"
        => /\ \A i \in DOMAIN call.refs :
                 call.refs[i] # NoFilePath => i \in call.out.attempted
           /\ call.out.record = call.out.written

\* C22: in every Run the stages are strictly ordered: JD analysis is
\* invoked exactly once and finishes before any CV analysis task starts,
\* every CV analysis task has finished before any match+score task starts,
\* every match+score task has finished before Rank is invoked, Rank is
\* invoked at most once, and the terminal store write happens only after
\* Rank has returned or a fatal step has failed.
C22_StagesOrdered ==
    /\ [](\A j \in Jobs :
            /\ parsed_cvs[j] # << >> => jd_result[j] = "ok"
            /\ candidate_scores[j] # << >>
                  => \A i \in DOMAIN parsed_cvs[j] : parsed_cvs[j][i].st \in {"ok", "failed"}
            /\ ranking_result[j] # "none"
                  => \A k \in DOMAIN candidate_scores[j] :
                        candidate_scores[j][k].st \in {"ok", "none"}
            /\ Stored(j).status \in TerminalStatuses
                  => /\ jd_result[j] # "none"
                     /\ jd_result[j] = "failed" \/ ranking_result[j] # "none")
    /\ [][\A j \in Jobs :
            /\ jd_result'[j] # jd_result[j] => jd_result[j] = "none"
            /\ ranking_result'[j] # ranking_result[j] => ranking_result[j] = "none"]_vars

RECURSIVE TotalMonths(_)
TotalMonths(experience) ==
    IF experience = << >> THEN 0
    ELSE Head(experience).duration_months + TotalMonths(Tail(experience))

\* C24: when CV structuring returns parsable output that contains experience
\* entries, the resulting profile keeps those entries, each given a derived
\* duration_months, and total_experience_years is the sum of those
\* durations in months divided by 12 (here in tenths of a year, rounded);
\* the minimal fallback profile is not substituted.
C24_ExperienceKept ==
    (call.fn = "parse_with_llm" /\ call.cv_dict.experience # << >>)
        => /\ call.out.kind # "fallback"
           /\ Len(call.out.experience) = Len(call.cv_dict.experience)
           /\ \A i \in DOMAIN call.out.experience :
                 /\ "duration_months" \in DOMAIN call.out.experience[i]
                 /\ call.out.experience[i].start_date = call.cv_dict.experience[i].start_date
           /\ call.out.total_experience_years
                 = (TotalMonths(call.out.experience) * 10 + 6) \div 12

RecentRoles == SubSeq(call.experience, 1, Min(5, Len(call.experience)))

\* base 50, plus 35 if the most recent role's level is at least that of the
\* oldest of the recent roles and plus 10 otherwise, plus 10 for 2 to 4
\* distinct employers or minus 5 for more than 4, clamped (in tenths)
CareerFormula ==
    LET recent == RecentRoles
        employers == Cardinality({ recent[i].company : i \in DOMAIN recent })
        keeps_level == recent = << >>
                          \/ role_level(recent[1]) >= role_level(recent[Len(recent)])
    IN  Min(1000, Max(0, 500 + (IF keeps_level THEN 350 ELSE 100)
                             + (IF employers >= 2 /\ employers <= 4 THEN 100
                                ELSE IF employers > 4 THEN -50 ELSE 0)))

\* C26 as stated: for every candidate, one with zero or one experience entry
\* included, the career trajectory score is base 50, plus 35 or plus 10 by
\* role progression, plus 10 or minus 5 by employer count, clamped to
\* [0,100].
C26_CareerFormulaAlways ==
    call.fn = "career" => call.out = CareerFormula

\* C26 amended: for a candidate with at least two experience entries the
\* career trajectory score is base 50, plus 35 or plus 10 by role
\* progression, plus 10 or minus 5 by employer count, clamped to [0,100];
\* for a candidate with zero or one entry it is 75.
C26_CareerFormulaFromTwoEntries ==
    call.fn = "career"
        => call.out = IF Len(call.experience) >= 2 THEN CareerFormula ELSE 750

\* six entries at six employers, the most recent role below the fifth: 55
C26_Witness ==
    /\ call.fn = "career"
    /\ Len(call.experience) = 6
    /\ Cardinality({ RecentRoles[i].company : i \in DOMAIN RecentRoles }) = 5
    /\ role_level(call.experience[1]) < role_level(call.experience[5])
    /\ call.out = 550

\* a direct skills-score call on a match result with match_percentage 0, no
\* matched nice-to-have skill and no semantic score
NothingMatched ==
    /\ call.fn = "skills_score"
    /\ call.matches.match_percentage = 0
    /\ call.matches.matched_nice_to_have = 0
    /\ "semantic_score" \notin DOMAIN call.matches

\* C27: when a match result has match_percentage 0, no matched
\* nice-to-have skills and no semantic score supplied, the skills score
\* computed by the scoring engine is 0.
C27_NoMatchScoresZero ==
    NothingMatched => call.out = 0

\* C28: text extraction for a CV ref returns the cleaned document text when
\* the file type is pdf, docx or txt (and reading the document does not
\* throw), and fails with an 'Unsupported file type' error only for other
\* file types; so a CV of type docx or txt is not dropped because of its
\* type.
C28_DocxAndTxtExtracted ==
    call.fn = "extract_text"
        => /\ (call.file_type \in {"pdf", "docx", "txt"} /\ ~ call.reader_throws)
                 => call.out = [raised |-> FALSE, error |-> "none", text |-> "cleaned"]
           /\ call.out.error = "Unsupported file type"
                 => call.file_type \notin {"pdf", "docx", "txt"}

\* C29: the writes Run makes to a job's record preserve what Submit
\* stored: a status query for a job Submit has stored, issued at any time
\* up to and after the job reaches completed or failed, returns the
\* created_at and the cv_count that Submit stored, which are those a query
\* issued immediately after Submit returns (a query finds the job in the
\* store of the API that Submit went through).
C29_SubmitFieldsPreserved ==
    \A j \in Jobs :
        (submit_response[j] = "processing" /\ query_response.op = "status"
            /\ query_response.job = j /\ query_response.outcome = "ok")
            => /\ query_response.created_at = "t_submit"
               /\ query_response.cv_count = Len(cv_files[j])

\* a status query on a failed job of two CVs answers with Submit's values
C29_Witness ==
    \E j \in Jobs :
        /\ submit_response[j] = "processing"
        /\ pc[j] = "done"
        /\ query_response.op = "status"
        /\ query_response.job = j
        /\ query_response.status = "failed"
        /\ query_response.created_at = "t_submit"
        /\ query_response.cv_count = 2

\* C30: if the JD profile declares no must-have skills and no nice-to-have
\* skills (as the JD analyzer's default profile does), every candidate's
\* skills_match is at most 30, so every candidate is removed by the
\* skills_match >= 40 filter and Rank returns an empty ranked list whatever
\* the CVs contain.
C30_NoSkillsNobodyRanked ==
    \A j \in Jobs :
        (jd_data[j].must_have_skills = << >> /\ jd_data[j].nice_to_have_skills = << >>)
            => /\ \A k \in DOMAIN candidate_scores[j] :
                      candidate_scores[j][k].st = "ok"
                          => /\ candidate_scores[j][k].score.skills_match <= 300
                             /\ ~ PassesThresholds(candidate_scores[j][k].score)
               /\ ranking_result[j] # "none"
                     => /\ ranking_result[j] = "ok"
                        /\ result[j].ranked_candidates = << >>
                        /\ result[j].total_candidates_ranked = 0

\* a job analysed with the default profile has ended completed with nothing
\* ranked although Rank was given two candidates, one of them with the
\* highest skills_match the profile allows
C30_Witness ==
    \E j \in Jobs :
        /\ pc[j] = "done"
        /\ jd_data[j] = DefaultJD
        /\ Len(ranking_input[j]) = 2
        /\ \E i \in DOMAIN ranking_input[j] : ranking_input[j][i].skills_match = 300
        /\ \E i \in DOMAIN ranking_input[j] : ranking_input[j][i].total >= 30
        /\ result[j].ranked_candidates = << >>
        /\ Stored(j).status = "completed"

====
